---- MODULE Spec2Model ----
(***************************************************************************)
(* Cart / order / address core of the Kampus Sepeti storefront.            *)
(*                                                                         *)
(* server/storage.ts (DatabaseStorage) runs against PostgreSQL through     *)
(* drizzle.  createOrder runs inside db.transaction: its statements are    *)
(* modelled one per step under read-committed isolation (every SELECT      *)
(* sees the rows committed so far plus the transaction's own writes, an    *)
(* UPDATE takes the row's lock and holds it until commit or rollback).     *)
(* Prices are decimal strings in the code; the model counts them in whole  *)
(* currency units.                                                         *)
(***************************************************************************)
EXTENDS Integers, Sequences, FiniteSets, TLC

VARIABLES
    stock,        \* products table: product id -> stock column
    orders,       \* orders table (committed rows)
    orderItems,   \* order_items table (committed rows)
    pc,           \* per request worker: position inside POST /api/orders
    req,          \* per request worker: the request being served
    idx,          \* per request worker: index of the line item of the running loop
    seen,         \* per request worker: product.stock read by the decrement pass
    tx,           \* per request worker: uncommitted writes of its transaction
    result,       \* per request worker: outcome of its last finished request
    calls,        \* number of POST /api/orders requests started so far
    restocks,     \* number of admin stock updates made so far
    listPrice,    \* products table: product id -> price column
    session,      \* req.session.userId of the last request made through a route
    ctx,          \* per request worker: its addToCart call in flight
    addresses,    \* addresses table
    nextAddrId,   \* next fresh address id
    atx,          \* per request worker: its createAddress transaction in flight
    cart,         \* cart_items table
    nextCartId,   \* next fresh cart item id
    last          \* the last storage call made outside the order workers

vars == <<stock, orders, orderItems, pc, req, idx, seen, tx, result, calls,
          restocks, listPrice, session, ctx, addresses, nextAddrId, atx, cart, nextCartId, last>>

orderVars == <<orders, orderItems, pc, req, idx, seen, tx, result, calls>>
addrVars == <<addresses, nextAddrId, atx>>
cartVars == <<cart, nextCartId>>

(***************************************************************************)
(* Bounds of the model.                                                    *)
(***************************************************************************)
MaxStock == 3
MaxQty == 2
MaxPrice == 2
MaxLines == 2
MaxCalls == 2
MaxRestocks == 1
MaxAddrs == 3
MaxCartItems == 1
MaxCartRows == 2
MaxRouteAddrs == 2

Products == {"p1", "p2"}
NoProduct == "p0"
ProductIds == Products \cup {NoProduct}
Users == {"u1", "u2"}
Workers == {"w1", "w2"}
Quantities == 1..MaxQty
Prices == 1..MaxPrice
Unset == "unset"

SessionUser(w) == IF w = "w1" THEN "u1" ELSE "u2"

\* the catalog's price of a product, which the checkout page sends back
CatalogPrice(p) == IF p = "p2" THEN MaxPrice ELSE 1

\* req.body.items of POST /api/orders: any price, or the catalog's price
Lines == [productId : ProductIds, quantity : Quantities, price : Prices]
CatalogLines == {l \in Lines : l.price = CatalogPrice(l.productId)}
ItemLists(lines) == UNION {[1..n -> lines] : n \in 1..MaxLines}

NoReq == [id |-> 0, userId |-> "u1", items |-> <<>>, totalAmount |-> 0]
NoTx == [stock |-> <<>>, orders |-> {}, items |-> {}]
NoResult == [id |-> 0, kind |-> "none"]
NoCtx == [pc |-> "idle", userId |-> "u1", productId |-> NoProduct, quantity |-> 0,
          stock |-> 0, existing |-> {}, ret |-> "none"]
NoAtx == [pc |-> "idle", userId |-> "u1", isDefault |-> Unset, flag |-> FALSE,
          scan |-> {}, unset |-> {}, rows |-> {}]
NoCall == [op |-> "none", userId |-> "u1", id |-> 0, productId |-> NoProduct,
           quantity |-> 0, isDefault |-> Unset, ret |-> "none",
           held |-> 0, available |-> 0,
           role |-> "user", status |-> 0, rows |-> {}, items |-> {}]

RECURSIVE SumSeq(_, _)
SumSeq(f, n) == IF n = 0 THEN 0 ELSE f[n] + SumSeq(f, n - 1)

(***************************************************************************)
(* POST /api/orders: the total the route computes from the request body.   *)
(***************************************************************************)
TotalIgnoringQuantity(items) ==
    SumSeq([i \in 1..Len(items) |-> items[i].price], Len(items))

TotalAmount(items) ==
    SumSeq([i \in 1..Len(items) |-> items[i].price * items[i].quantity], Len(items))

(***************************************************************************)
(* The transaction scope of db.transaction.                                *)
(***************************************************************************)
\* rows of the products table a transaction has updated (and so locked)
Locked(w) == DOMAIN tx[w].stock

\* a select that goes to the committed rows, past the transaction's own writes
TxStockCommittedOnly(w, p) == stock[p]

\* tx.select().from(products).where(eq(products.id, p)): the stock seen
TxStock(w, p) == IF p \in Locked(w) THEN tx[w].stock[p] ELSE stock[p]

\* another transaction holds the lock of row p
LockedByOther(w, p) == \E o \in Workers \ {w} : p \in Locked(o)

\* the callback returned: every write of the transaction becomes visible
ApplyWrites(w) ==
    /\ stock' = [p \in DOMAIN stock |->
                    IF p \in Locked(w) THEN tx[w].stock[p] ELSE stock[p]]
    /\ orders' = orders \cup tx[w].orders
    /\ orderItems' = orderItems \cup tx[w].items

\* a rollback that leaves the writes made so far in place
RollbackKeepsWrites(w) == ApplyWrites(w)

\* the callback threw: every write of the transaction is discarded
Rollback(w) == UNCHANGED <<stock, orders, orderItems>>

Throw(w, kind) ==
    /\ Rollback(w)
    /\ tx' = [tx EXCEPT ![w] = NoTx]
    /\ pc' = [pc EXCEPT ![w] = "idle"]
    /\ result' = [result EXCEPT ![w] = [id |-> req[w].id, kind |-> kind]]
    /\ UNCHANGED <<req, idx, seen, calls>>

(***************************************************************************)
(* POST /api/orders and DatabaseStorage.createOrder, statement by          *)
(* statement.                                                              *)
(***************************************************************************)
PostOrders(w, lines) ==
    /\ pc[w] = "idle"
    /\ calls < MaxCalls
    /\ \E items \in ItemLists(lines) :
          req' = [req EXCEPT ![w] = [id |-> calls + 1,
                                     userId |-> SessionUser(w),
                                     items |-> items,
                                     totalAmount |-> TotalAmount(items)]]
    /\ calls' = calls + 1
    /\ pc' = [pc EXCEPT ![w] = "validate"]
    /\ idx' = [idx EXCEPT ![w] = 1]
    /\ tx' = [tx EXCEPT ![w] = NoTx]
    /\ UNCHANGED <<stock, orders, orderItems, seen, result>>

\* a comparison that turns away an order for exactly the stock
InsufficientStockOffByOne(productStock, quantity) ==
    productStock = 0 \/ productStock <= quantity

\* if (!product.stock || product.stock < item.quantity)
InsufficientStock(productStock, quantity) ==
    productStock = 0 \/ productStock < quantity

ValidateLine(w) ==
    /\ pc[w] = "validate"
    /\ LET item == req[w].items[idx[w]] IN
          IF item.productId \notin DOMAIN stock
          THEN Throw(w, "NotFound")
          ELSE IF InsufficientStock(TxStock(w, item.productId), item.quantity)
          THEN Throw(w, "InsufficientStock")
          ELSE /\ IF idx[w] < Len(req[w].items)
                  THEN /\ idx' = [idx EXCEPT ![w] = idx[w] + 1]
                       /\ pc' = pc
                  ELSE /\ idx' = [idx EXCEPT ![w] = 1]
                       /\ pc' = [pc EXCEPT ![w] = "insert"]
               /\ UNCHANGED <<stock, orders, orderItems, req, seen, tx, result, calls>>

\* an insert that prices every line from the catalog
InsertOrderAtListPrice(w) ==
    /\ pc[w] = "insert"
    /\ tx' = [tx EXCEPT ![w] =
                [stock |-> tx[w].stock,
                 orders |-> {[id |-> req[w].id, userId |-> req[w].userId,
                              totalAmount |-> req[w].totalAmount,
                              status |-> "pending"]},
                 items |-> {[orderId |-> req[w].id, line |-> i,
                             productId |-> req[w].items[i].productId,
                             quantity |-> req[w].items[i].quantity,
                             price |-> listPrice[req[w].items[i].productId]]
                            : i \in 1..Len(req[w].items)}]]
    /\ pc' = [pc EXCEPT ![w] = "read"]
    /\ idx' = [idx EXCEPT ![w] = 1]
    /\ UNCHANGED <<stock, orders, orderItems, req, seen, result, calls>>

InsertOrder(w) ==
    /\ pc[w] = "insert"
    /\ tx' = [tx EXCEPT ![w] =
                [stock |-> tx[w].stock,
                 orders |-> {[id |-> req[w].id, userId |-> req[w].userId,
                              totalAmount |-> req[w].totalAmount,
                              status |-> "pending"]},
                 items |-> {[orderId |-> req[w].id, line |-> i,
                             productId |-> req[w].items[i].productId,
                             quantity |-> req[w].items[i].quantity,
                             price |-> req[w].items[i].price]
                            : i \in 1..Len(req[w].items)}]]
    /\ pc' = [pc EXCEPT ![w] = "read"]
    /\ idx' = [idx EXCEPT ![w] = 1]
    /\ UNCHANGED <<stock, orders, orderItems, req, seen, result, calls>>

AfterLine(w) ==
    IF idx[w] < Len(req[w].items)
    THEN /\ idx' = [idx EXCEPT ![w] = idx[w] + 1]
         /\ pc' = [pc EXCEPT ![w] = "read"]
    ELSE /\ idx' = [idx EXCEPT ![w] = 1]
         /\ pc' = [pc EXCEPT ![w] = "commit"]

DecrementRead(w) ==
    /\ pc[w] = "read"
    /\ LET item == req[w].items[idx[w]] IN
          IF item.productId \in DOMAIN stock
          THEN /\ seen' = [seen EXCEPT ![w] = TxStock(w, item.productId)]
               /\ pc' = [pc EXCEPT ![w] = "write"]
               /\ idx' = idx
          ELSE /\ AfterLine(w)
               /\ seen' = seen
    /\ UNCHANGED <<stock, orders, orderItems, req, tx, result, calls>>

\* const newStock = product.stock - item.quantity
NewStock(productStock, quantity) == productStock - quantity

\* a decrement that compares the quantity with the stock it read
DecrementWriteChecked(w) ==
    /\ pc[w] = "write"
    /\ LET item == req[w].items[idx[w]] IN
          /\ ~LockedByOther(w, item.productId)
          /\ IF item.quantity > seen[w]
             THEN Throw(w, "InsufficientStock")
             ELSE /\ tx' = [tx EXCEPT ![w].stock =
                               [p \in Locked(w) \cup {item.productId} |->
                                   IF p = item.productId
                                   THEN NewStock(seen[w], item.quantity)
                                   ELSE tx[w].stock[p]]]
                  /\ AfterLine(w)
                  /\ UNCHANGED <<stock, orders, orderItems, req, seen, result, calls>>

\* await tx.update(products).set({ stock: newStock }).where(eq(products.id, ...))
DecrementWrite(w) ==
    /\ pc[w] = "write"
    /\ LET item == req[w].items[idx[w]] IN
          /\ ~LockedByOther(w, item.productId)
          /\ tx' = [tx EXCEPT ![w].stock =
                       [p \in Locked(w) \cup {item.productId} |->
                           IF p = item.productId
                           THEN NewStock(seen[w], item.quantity)
                           ELSE tx[w].stock[p]]]
    /\ AfterLine(w)
    /\ UNCHANGED <<stock, orders, orderItems, req, seen, result, calls>>

\* the UPDATE of this worker waits for a row lock
WaitsFor(w, o) ==
    /\ pc[w] = "write"
    /\ o # w
    /\ req[w].items[idx[w]].productId \in Locked(o)

\* PostgreSQL ends a lock cycle by failing one of its transactions
DeadlockAbort(w) ==
    /\ \E o \in Workers : WaitsFor(w, o) /\ WaitsFor(o, w)
    /\ Throw(w, "StorageFailure")

Commit(w) ==
    /\ pc[w] = "commit"
    /\ ApplyWrites(w)
    /\ tx' = [tx EXCEPT ![w] = NoTx]
    /\ pc' = [pc EXCEPT ![w] = "clear"]
    /\ UNCHANGED <<req, idx, seen, result, calls>>

\* a delete without the WHERE clause: every user's cart items go
CartWithoutAnyone(userId) == {}

\* db.delete(cartItems).where(eq(cartItems.userId, userId))
CartWithout(userId) == {c \in cart : c.userId # userId}

\* await storage.clearCart(userId); res.status(201).json(order)
ClearCartAfterOrder(w) ==
    /\ pc[w] = "clear"
    /\ cart' = CartWithout(req[w].userId)
    /\ pc' = [pc EXCEPT ![w] = "idle"]
    /\ result' = [result EXCEPT ![w] = [id |-> req[w].id, kind |-> "ok"]]
    /\ UNCHANGED <<stock, orders, orderItems, req, idx, seen, tx, calls, nextCartId>>

(***************************************************************************)
(* PUT /api/products/:id (admin): updateProduct writes the stock column in *)
(* one statement of its own; it waits for the row's lock like any UPDATE.  *)
(***************************************************************************)
updateProduct(p, newStock) ==
    /\ \A w \in Workers : p \notin Locked(w)
    /\ stock' = IF p \in DOMAIN stock THEN [stock EXCEPT ![p] = newStock] ELSE stock

(***************************************************************************)
(* DELETE /api/products/:id (admin): deleteProduct removes the row in one  *)
(* statement of its own.  Nothing in the statement touches the cart items  *)
(* of the product: they stay, and their join finds no product.             *)
(***************************************************************************)
deleteProduct(p) ==
    /\ \A w \in Workers : p \notin Locked(w)
    /\ stock' = [q \in DOMAIN stock \ {p} |-> stock[q]]
    /\ listPrice' = [q \in DOMAIN listPrice \ {p} |-> listPrice[q]]

Init ==
    /\ stock = [p \in Products |-> MaxStock]
    /\ orders = {}
    /\ orderItems = {}
    /\ pc = [w \in Workers |-> "idle"]
    /\ req = [w \in Workers |-> NoReq]
    /\ idx = [w \in Workers |-> 1]
    /\ seen = [w \in Workers |-> 0]
    /\ tx = [w \in Workers |-> NoTx]
    /\ result = [w \in Workers |-> NoResult]
    /\ calls = 0
    /\ restocks = 0
    /\ listPrice = [p \in Products |-> CatalogPrice(p)]
    /\ session = "u1"
    /\ ctx = [w \in Workers |-> NoCtx]
    /\ addresses = {}
    /\ nextAddrId = 1
    /\ atx = [w \in Workers |-> NoAtx]
    /\ cart = {}
    /\ nextCartId = 1
    /\ last = NoCall

OrderStep(lines) ==
    \E w \in Workers :
        \/ PostOrders(w, lines) /\ UNCHANGED <<restocks, listPrice, session, ctx, addrVars, cartVars, last>>
        \/ ValidateLine(w) /\ UNCHANGED <<restocks, listPrice, session, ctx, addrVars, cartVars, last>>
        \/ InsertOrder(w) /\ UNCHANGED <<restocks, listPrice, session, ctx, addrVars, cartVars, last>>
        \/ DecrementRead(w) /\ UNCHANGED <<restocks, listPrice, session, ctx, addrVars, cartVars, last>>
        \/ DecrementWrite(w) /\ UNCHANGED <<restocks, listPrice, session, ctx, addrVars, cartVars, last>>
        \/ DeadlockAbort(w) /\ UNCHANGED <<restocks, listPrice, session, ctx, addrVars, cartVars, last>>
        \/ Commit(w) /\ UNCHANGED <<restocks, listPrice, session, ctx, addrVars, cartVars, last>>
        \/ ClearCartAfterOrder(w) /\ UNCHANGED <<restocks, listPrice, session, ctx, addrVars, last>>

Restock ==
    /\ restocks < MaxRestocks
    /\ restocks' = restocks + 1
    /\ \E p \in Products, s \in 0..MaxStock : updateProduct(p, s)
    /\ UNCHANGED <<listPrice, session, ctx>>
    /\ UNCHANGED <<orderVars, addrVars, cartVars, last>>

\* order requests racing each other, the client sending the catalog's prices
NextOrders == OrderStep(CatalogLines)
SpecOrders == Init /\ [][NextOrders]_vars

\* order requests racing each other, the client sending any prices
NextPrices == OrderStep(Lines)
SpecPrices == Init /\ [][NextPrices]_vars

\* one order request at a time: a request starts and runs while no other
\* request is being served, and the admin updates stock between requests
IsolatedStep(lines) ==
    \E w \in Workers :
        /\ \A o \in Workers \ {w} : pc[o] = "idle"
        /\ \/ PostOrders(w, lines) /\ UNCHANGED <<restocks, listPrice, session, ctx, addrVars, cartVars, last>>
           \/ ValidateLine(w) /\ UNCHANGED <<restocks, listPrice, session, ctx, addrVars, cartVars, last>>
           \/ InsertOrder(w) /\ UNCHANGED <<restocks, listPrice, session, ctx, addrVars, cartVars, last>>
           \/ DecrementRead(w) /\ UNCHANGED <<restocks, listPrice, session, ctx, addrVars, cartVars, last>>
           \/ DecrementWrite(w) /\ UNCHANGED <<restocks, listPrice, session, ctx, addrVars, cartVars, last>>
           \/ Commit(w) /\ UNCHANGED <<restocks, listPrice, session, ctx, addrVars, cartVars, last>>
           \/ ClearCartAfterOrder(w) /\ UNCHANGED <<restocks, listPrice, session, ctx, addrVars, last>>

RestockBetweenOrders == (\A w \in Workers : pc[w] = "idle") /\ Restock

NextIsolated == IsolatedStep(CatalogLines) \/ RestockBetweenOrders
SpecIsolated == Init /\ [][NextIsolated]_vars

\* PUT /api/products/:id (admin) with a new price: one UPDATE of the row
updateProductPrice(p, newPrice) ==
    /\ \A w \in Workers : p \notin Locked(w)
    /\ listPrice' = IF p \in DOMAIN listPrice
                    THEN [listPrice EXCEPT ![p] = newPrice] ELSE listPrice

UpdatePriceCall ==
    \E p \in Products, v \in Prices :
        /\ updateProductPrice(p, v)
        /\ UNCHANGED <<stock, restocks, session, ctx, orderVars, addrVars, cartVars, last>>

\* request lines for products of the catalog at any price
PricedLines == {l \in Lines : l.productId \in Products}

\* one order request at a time, the client sending any prices, and the
\* admin changing catalog prices at any moment
NextRepricing == IsolatedStep(PricedLines) \/ UpdatePriceCall
SpecRepricing == Init /\ [][NextRepricing]_vars

\* req.body.items as the route passes them on: item.quantity is copied
\* without a check, so it may be zero or negative
UnvalidatedQuantities == {0 - 1, 0, 1}
UnvalidatedLines ==
    {[productId |-> p, quantity |-> q, price |-> CatalogPrice(p)] :
        p \in Products, q \in UnvalidatedQuantities}

\* one order request at a time, with quantities of any sign
NextUnvalidated == IsolatedStep(UnvalidatedLines)
SpecUnvalidated == Init /\ [][NextUnvalidated]_vars

\* order requests racing each other and the admin's stock updates
Next == OrderStep(CatalogLines) \/ Restock
Spec == Init /\ [][Next]_vars

(***************************************************************************)
(* Address operations of DatabaseStorage.  Each runs in one transaction    *)
(* (deleteAddress is one statement) and is one step here.  isDefault of a  *)
(* request is "true", "false" or "unset"; the column defaults to false.    *)
(***************************************************************************)
IsDefaultArgs == {"true", "false", Unset}
AddrIds == 1..MaxAddrs

AddressesOf(addrs, userId) == {a \in addrs : a.userId = userId}
DefaultsOf(addrs, userId) == {a \in AddressesOf(addrs, userId) : a.isDefault}

\* the defaults of the user are left as they are
KeepDefaults(addrs, userId) == addrs

\* an UPDATE without its WHERE clause: the defaults of every user are unset
UnsetDefaultsOfEveryone(addrs, userId) ==
    {[a EXCEPT !.isDefault = FALSE] : a \in addrs}

\* update(addresses).set({ isDefault: false }).where(eq(addresses.userId, userId))
UnsetDefaults(addrs, userId) ==
    {IF a.userId = userId THEN [a EXCEPT !.isDefault = FALSE] ELSE a : a \in addrs}

\* the first-address test never succeeds
NeverFirstAddress(addrs, userId) == FALSE

\* existingAddresses.length === 0
NoAddresses(addrs, userId) == AddressesOf(addrs, userId) = {}

createAddress(userId, isDefault) ==
    /\ nextAddrId <= MaxAddrs
    /\ LET flag == IF isDefault = "true" THEN TRUE
                   ELSE NoAddresses(addresses, userId)
           base == IF isDefault = "true"
                   THEN UnsetDefaults(addresses, userId)
                   ELSE addresses
       IN addresses' = base \cup {[id |-> nextAddrId, userId |-> userId,
                                    isDefault |-> flag]}
    /\ nextAddrId' = nextAddrId + 1
    /\ last' = [NoCall EXCEPT !.op = "createAddress", !.userId = userId,
                              !.id = nextAddrId, !.isDefault = isDefault,
                              !.ret = "ok"]

updateAddress(id, isDefault) ==
    /\ LET current == {a \in addresses : a.id = id}
           base == IF isDefault = "true" /\ current # {}
                   THEN UnsetDefaults(addresses, (CHOOSE c \in current : TRUE).userId)
                   ELSE addresses
       IN /\ addresses' = {IF a.id = id /\ isDefault # Unset
                            THEN [a EXCEPT !.isDefault = (isDefault = "true")]
                            ELSE a : a \in base}
          /\ last' = [NoCall EXCEPT !.op = "updateAddress", !.id = id,
                                    !.isDefault = isDefault,
                                    !.ret = IF current # {} THEN "ok" ELSE "undefined"]
    /\ UNCHANGED nextAddrId

deleteAddress(id) ==
    /\ addresses' = {a \in addresses : a.id # id}
    /\ last' = [NoCall EXCEPT !.op = "deleteAddress", !.id = id,
                              !.ret = IF \E a \in addresses : a.id = id
                                      THEN "true" ELSE "false"]
    /\ UNCHANGED nextAddrId

\* a WHERE clause that forgets the owner
IsTargetAnyOwner(a, userId, addressId) == a.id = addressId

\* where(and(eq(addresses.id, addressId), eq(addresses.userId, userId)))
IsTarget(a, userId, addressId) == a.id = addressId /\ a.userId = userId

setDefaultAddress(userId, addressId) ==
    /\ LET base == UnsetDefaults(addresses, userId) IN
          /\ addresses' = {IF IsTarget(a, userId, addressId)
                            THEN [a EXCEPT !.isDefault = TRUE]
                            ELSE a : a \in base}
          /\ last' = [NoCall EXCEPT !.op = "setDefaultAddress", !.userId = userId,
                                    !.id = addressId,
                                    !.ret = IF \E a \in base : IsTarget(a, userId, addressId)
                                            THEN "true" ELSE "false"]
    /\ UNCHANGED nextAddrId

CreateAddressCall ==
    \E u \in Users, d \in IsDefaultArgs :
        createAddress(u, d) /\ UNCHANGED <<stock, restocks, listPrice, session, ctx, orderVars, cartVars, atx>>
UpdateAddressCall ==
    \E id \in AddrIds, d \in IsDefaultArgs :
        updateAddress(id, d) /\ UNCHANGED <<stock, restocks, listPrice, session, ctx, orderVars, cartVars, atx>>
SetDefaultAddressCall ==
    \E u \in Users, id \in AddrIds :
        setDefaultAddress(u, id) /\ UNCHANGED <<stock, restocks, listPrice, session, ctx, orderVars, cartVars, atx>>
DeleteAddressCall ==
    \E id \in AddrIds :
        deleteAddress(id) /\ UNCHANGED <<stock, restocks, listPrice, session, ctx, orderVars, cartVars, atx>>

\* createAddress, updateAddress and setDefaultAddress calls one after another
NextAddrNoDelete == CreateAddressCall \/ UpdateAddressCall \/ SetDefaultAddressCall
SpecAddrNoDelete == Init /\ [][NextAddrNoDelete]_vars

\* all four address operations
NextAddr == NextAddrNoDelete \/ DeleteAddressCall
SpecAddr == Init /\ [][NextAddr]_vars

(***************************************************************************)
(* createAddress statement by statement, for requests served at the same   *)
(* time.  Each runs in its own db.transaction at the isolation level of    *)
(* the connection (read committed): a SELECT or the scan of an UPDATE sees *)
(* the rows committed when the statement starts, an UPDATE locks the rows  *)
(* it changes until commit, an INSERT is invisible to others until commit. *)
(***************************************************************************)
\* ids of the rows another transaction has updated and not yet committed
AddrLockedByOther(w) == UNION {atx[o].unset : o \in Workers \ {w}}

\* POST /api/addresses enters storage.createAddress
BeginCreateAddress(w, userId, isDefault) ==
    /\ atx[w].pc = "idle"
    /\ nextAddrId + Cardinality({o \in Workers : atx[o].pc # "idle"}) <= MaxAddrs
    /\ atx' = [atx EXCEPT ![w] = [NoAtx EXCEPT !.pc = "check", !.userId = userId,
                                               !.isDefault = isDefault,
                                               !.flag = (isDefault = "true")]]
    /\ UNCHANGED <<addresses, nextAddrId>>

\* if (address.isDefault) the UPDATE scans the user's rows,
\* else the SELECT counts them: existingAddresses.length === 0
CheckExisting(w) ==
    /\ atx[w].pc = "check"
    /\ LET mine == AddressesOf(addresses, atx[w].userId) IN
          atx' = IF atx[w].isDefault = "true"
                 THEN [atx EXCEPT ![w].pc = "unset",
                                  ![w].scan = {a.id : a \in mine}]
                 ELSE [atx EXCEPT ![w].pc = "insert",
                                  ![w].flag = NoAddresses(addresses, atx[w].userId)]
    /\ UNCHANGED <<addresses, nextAddrId>>

\* the UPDATE takes the locks of the rows it scanned and sets isDefault false
UnsetScanned(w) ==
    /\ atx[w].pc = "unset"
    /\ atx[w].scan \cap AddrLockedByOther(w) = {}
    /\ atx' = [atx EXCEPT ![w].pc = "insert", ![w].unset = atx[w].scan]
    /\ UNCHANGED <<addresses, nextAddrId>>

\* tx.insert(addresses).values(address).returning()
InsertAddress(w) ==
    /\ atx[w].pc = "insert"
    /\ atx' = [atx EXCEPT ![w].pc = "commit",
                          ![w].rows = {[id |-> nextAddrId, userId |-> atx[w].userId,
                                        isDefault |-> atx[w].flag]}]
    /\ nextAddrId' = nextAddrId + 1
    /\ UNCHANGED addresses

\* the callback returned: the transaction commits
CommitAddress(w) ==
    /\ atx[w].pc = "commit"
    /\ addresses' = {IF a.id \in atx[w].unset THEN [a EXCEPT !.isDefault = FALSE]
                     ELSE a : a \in addresses} \cup atx[w].rows
    /\ atx' = [atx EXCEPT ![w] = NoAtx]
    /\ UNCHANGED nextAddrId

\* createAddress requests racing each other
NextAddrRace ==
    \E w \in Workers :
        \/ \E u \in Users, d \in IsDefaultArgs :
              /\ BeginCreateAddress(w, u, d)
              /\ UNCHANGED <<stock, restocks, listPrice, session, ctx, orderVars, cartVars, last>>
        \/ CheckExisting(w) /\ UNCHANGED <<stock, restocks, listPrice, session, ctx, orderVars, cartVars, last>>
        \/ UnsetScanned(w) /\ UNCHANGED <<stock, restocks, listPrice, session, ctx, orderVars, cartVars, last>>
        \/ InsertAddress(w) /\ UNCHANGED <<stock, restocks, listPrice, session, ctx, orderVars, cartVars, last>>
        \/ CommitAddress(w) /\ UNCHANGED <<stock, restocks, listPrice, session, ctx, orderVars, cartVars, last>>
SpecAddrRace == Init /\ [][NextAddrRace]_vars

(***************************************************************************)
(* Cart operations of DatabaseStorage, one step each.  Errors are thrown   *)
(* as messages; ret names the kind of the message, held and available the  *)
(* quantities the message reports.                                         *)
(***************************************************************************)
CartItemIds == 1..MaxCartItems
RequestQuantities == 0..MaxQty

\* only a stock of exactly 0 counts as out of stock
OutOfStockOnlyZero(productStock) == productStock = 0

\* if (!product.stock || product.stock <= 0)
OutOfStock(productStock) == productStock = 0 \/ productStock <= 0

\* only the quantity asked for is compared with the stock
AddedExceedsStock(held, quantity, productStock) == quantity > productStock

\* newQuantity = existingItem.quantity + cartItem.quantity; newQuantity > product.stock
CombinedExceedsStock(held, quantity, productStock) == held + quantity > productStock

\* the cart item is looked up by the id of another row
FindNoCartItem(items, id) == {c \in items : c.id = id + 1}

\* .from(cartItems).leftJoin(products, ...).where(eq(cartItems.id, id))
FindCartItem(items, id) == {c \in items : c.id = id}

\* a comparison that lets one unit too many through
ExceedsStockOffByOne(quantity, productStock) == quantity > productStock + 1

\* quantity > product.stock
ExceedsStock(quantity, productStock) == quantity > productStock

\* the quantity asked for replaces the quantity held
ReplacedQuantity(held, quantity) == quantity

\* const newQuantity = (existingItem.quantity || 0) + (cartItem.quantity || 0)
NewQuantity(held, quantity) == held + quantity

addToCart(userId, productId, quantity) ==
    LET call == [NoCall EXCEPT !.op = "addToCart", !.userId = userId,
                               !.productId = productId, !.quantity = quantity]
        existing == {c \in cart : c.userId = userId /\ c.productId = productId}
    IN
    IF productId \notin DOMAIN stock
    THEN /\ last' = [call EXCEPT !.ret = "NotFound"]
         /\ UNCHANGED cartVars
    ELSE IF OutOfStock(stock[productId])
    THEN /\ last' = [call EXCEPT !.ret = "OutOfStock"]
         /\ UNCHANGED cartVars
    ELSE IF existing # {}
    THEN \E existingItem \in existing :
            IF CombinedExceedsStock(existingItem.quantity, quantity, stock[productId])
            THEN /\ last' = [call EXCEPT !.ret = "InsufficientStock",
                                         !.id = existingItem.id,
                                         !.held = existingItem.quantity,
                                         !.available = stock[productId]]
                 /\ UNCHANGED cartVars
            ELSE /\ cart' = {IF c.id = existingItem.id
                             THEN [c EXCEPT !.quantity = NewQuantity(existingItem.quantity, quantity)]
                             ELSE c : c \in cart}
                 /\ last' = [call EXCEPT !.ret = "ok", !.id = existingItem.id]
                 /\ UNCHANGED nextCartId
    ELSE IF ExceedsStock(quantity, stock[productId])
    THEN /\ last' = [call EXCEPT !.ret = "InsufficientStock",
                                 !.available = stock[productId]]
         /\ UNCHANGED cartVars
    ELSE /\ cart' = cart \cup {[id |-> nextCartId, userId |-> userId,
                                 productId |-> productId, quantity |-> quantity]}
         /\ nextCartId' = nextCartId + 1
         /\ last' = [call EXCEPT !.ret = "ok", !.id = nextCartId]

updateCartItem(id, quantity) ==
    LET call == [NoCall EXCEPT !.op = "updateCartItem", !.id = id,
                               !.quantity = quantity]
        found == FindCartItem(cart, id)
    IN
    IF found = {}
    THEN /\ last' = [call EXCEPT !.ret = "NotFound"]
         /\ UNCHANGED cartVars
    ELSE LET cartItem == CHOOSE c \in found : TRUE IN
         IF cartItem.productId \notin DOMAIN stock
         THEN /\ last' = [call EXCEPT !.ret = "NotFound"]
              /\ UNCHANGED cartVars
         ELSE IF ExceedsStock(quantity, stock[cartItem.productId])
         THEN /\ last' = [call EXCEPT !.ret = "InsufficientStock",
                                      !.available = stock[cartItem.productId]]
              /\ UNCHANGED cartVars
         ELSE /\ cart' = {IF c.id = id THEN [c EXCEPT !.quantity = quantity]
                          ELSE c : c \in cart}
              /\ last' = [call EXCEPT !.ret = "ok"]
              /\ UNCHANGED nextCartId

removeFromCart(id) ==
    /\ cart' = {c \in cart : c.id # id}
    /\ last' = [NoCall EXCEPT !.op = "removeFromCart", !.id = id,
                              !.ret = IF \E c \in cart : c.id = id
                                      THEN "true" ELSE "false"]
    /\ UNCHANGED nextCartId

clearCart(userId) ==
    /\ cart' = CartWithout(userId)
    /\ last' = [NoCall EXCEPT !.op = "clearCart", !.userId = userId,
                              !.ret = IF \E c \in cart : c.userId = userId
                                      THEN "true" ELSE "false"]
    /\ UNCHANGED nextCartId

AddToCartCall ==
    \E u \in Users, p \in ProductIds, q \in RequestQuantities :
        /\ addToCart(u, p, q)
        /\ nextCartId' <= MaxCartItems + 1
        /\ UNCHANGED <<stock, restocks, listPrice, session, ctx, orderVars, addrVars>>
UpdateCartItemCall ==
    \E id \in CartItemIds, q \in RequestQuantities :
        updateCartItem(id, q) /\ UNCHANGED <<stock, restocks, listPrice, session, ctx, orderVars, addrVars>>
RemoveFromCartCall ==
    \E id \in CartItemIds :
        removeFromCart(id) /\ UNCHANGED <<stock, restocks, listPrice, session, ctx, orderVars, addrVars>>
ClearCartCall ==
    \E u \in Users :
        clearCart(u) /\ UNCHANGED <<stock, restocks, listPrice, session, ctx, orderVars, addrVars>>
\* the stock column takes any integer the admin sends
UpdateProductCall ==
    \E p \in Products, s \in (0 - 1)..MaxStock :
        /\ updateProduct(p, s)
        /\ last' = [NoCall EXCEPT !.op = "updateProduct"]
        /\ UNCHANGED <<restocks, listPrice, session, ctx, orderVars, addrVars, cartVars>>

\* cart calls and admin stock updates one after another
NextCart ==
    \/ AddToCartCall
    \/ UpdateCartItemCall
    \/ RemoveFromCartCall
    \/ ClearCartCall
    \/ UpdateProductCall
SpecCart == Init /\ [][NextCart]_vars

\* cart calls one after another on a cart of several rows, the stock fixed
CartRowIds == 1..MaxCartRows
AddToCartRows ==
    \E u \in Users, p \in ProductIds, q \in RequestQuantities :
        /\ addToCart(u, p, q)
        /\ nextCartId' <= MaxCartRows + 1
        /\ UNCHANGED <<stock, restocks, listPrice, session, ctx, orderVars, addrVars>>
UpdateCartRows ==
    \E id \in CartRowIds, q \in RequestQuantities :
        updateCartItem(id, q) /\ UNCHANGED <<stock, restocks, listPrice, session, ctx, orderVars, addrVars>>
RemoveCartRows ==
    \E id \in CartRowIds :
        removeFromCart(id) /\ UNCHANGED <<stock, restocks, listPrice, session, ctx, orderVars, addrVars>>
NextCartRows == AddToCartRows \/ UpdateCartRows \/ RemoveCartRows \/ ClearCartCall
SpecCartRows == Init /\ [][NextCartRows]_vars

DeleteProductCall ==
    \E p \in Products :
        /\ deleteProduct(p)
        /\ last' = [NoCall EXCEPT !.op = "deleteProduct"]
        /\ UNCHANGED <<restocks, session, ctx, orderVars, addrVars, cartVars>>

\* cart calls, admin stock updates and admin product deletions
NextCatalog == NextCart \/ DeleteProductCall
SpecCatalog == Init /\ [][NextCatalog]_vars

(***************************************************************************)
(* The cart and address routes of routes.ts, one request per step.  Each   *)
(* request carries the session's user id; the route hands the storage call *)
(* what the code hands it: the session user where the code passes userId,  *)
(* the id of the URL and the body's fields as they come.                   *)
(***************************************************************************)
RouteFrame == <<restocks, listPrice, ctx, orderVars>>

\* a POST /api/cart that also takes the quantity off the product's stock
PostCartReserving(u, p, q) ==
    /\ addToCart(u, p, q)
    /\ nextCartId' <= MaxCartItems + 1
    /\ session' = u
    /\ stock' = IF last'.ret = "ok" THEN [stock EXCEPT ![p] = stock[p] - q] ELSE stock
    /\ UNCHANGED <<RouteFrame, addrVars>>

\* POST /api/cart: storage.addToCart({ userId, productId, quantity })
PostCart(u, p, q) ==
    /\ addToCart(u, p, q)
    /\ nextCartId' <= MaxCartItems + 1
    /\ session' = u
    /\ UNCHANGED <<stock, RouteFrame, addrVars>>

\* PUT /api/cart/:id: storage.updateCartItem(req.params.id, quantity)
PutCartItem(u, id, q) ==
    /\ updateCartItem(id, q)
    /\ session' = u
    /\ UNCHANGED <<stock, RouteFrame, addrVars>>

\* DELETE /api/cart/:id: storage.removeFromCart(req.params.id)
DeleteCartItem(u, id) ==
    /\ removeFromCart(id)
    /\ session' = u
    /\ UNCHANGED <<stock, RouteFrame, addrVars>>

\* DELETE /api/cart: storage.clearCart(userId)
DeleteCart(u) ==
    /\ clearCart(u)
    /\ session' = u
    /\ UNCHANGED <<stock, RouteFrame, addrVars>>

\* POST /api/addresses: storage.createAddress({ ...req.body, userId })
PostAddress(u, isDefault) ==
    /\ createAddress(u, isDefault)
    /\ nextAddrId' <= MaxRouteAddrs + 1
    /\ session' = u
    /\ UNCHANGED <<stock, RouteFrame, cartVars, atx>>

\* PUT /api/addresses/:id: storage.updateAddress(req.params.id, body without userId)
PutAddress(u, id, isDefault) ==
    /\ updateAddress(id, isDefault)
    /\ session' = u
    /\ UNCHANGED <<stock, RouteFrame, cartVars, atx>>

\* DELETE /api/addresses/:id: storage.deleteAddress(req.params.id)
DeleteAddressById(u, id) ==
    /\ deleteAddress(id)
    /\ session' = u
    /\ UNCHANGED <<stock, RouteFrame, cartVars, atx>>

\* PUT /api/addresses/:id/default: storage.setDefaultAddress(userId, req.params.id)
PutAddressDefault(u, id) ==
    /\ setDefaultAddress(u, id)
    /\ session' = u
    /\ UNCHANGED <<stock, RouteFrame, cartVars, atx>>

RouteAddrIds == 1..MaxRouteAddrs

\* requests of the two users to the cart and address routes, one after
\* another, and the admin's stock updates
NextRoutes ==
    \/ \E u \in Users, p \in ProductIds, q \in RequestQuantities : PostCart(u, p, q)
    \/ \E u \in Users, id \in CartItemIds, q \in RequestQuantities : PutCartItem(u, id, q)
    \/ \E u \in Users, id \in CartItemIds : DeleteCartItem(u, id)
    \/ \E u \in Users : DeleteCart(u)
    \/ \E u \in Users, d \in IsDefaultArgs : PostAddress(u, d)
    \/ \E u \in Users, id \in RouteAddrIds, d \in IsDefaultArgs : PutAddress(u, id, d)
    \/ \E u \in Users, id \in RouteAddrIds : DeleteAddressById(u, id)
    \/ \E u \in Users, id \in RouteAddrIds : PutAddressDefault(u, id)
    \/ Restock
SpecRoutes == Init /\ [][NextRoutes]_vars

(***************************************************************************)
(* addToCart statement by statement.  The call runs outside a transaction: *)
(* its two SELECTs and its INSERT or UPDATE are statements of their own,   *)
(* and statements of other requests run between them.  ctx[w] holds the    *)
(* call's locals: product.stock and the rows of the second SELECT.         *)
(***************************************************************************)
\* whether cart_items carries a unique index on (user_id, product_id); the
\* data model describes the pair as unique but names no index, and the
\* insert of addToCart handles no conflict
UniqueUserProduct == FALSE

AddToCartQuantities == 1..MaxQty

\* const [product] = await db.select().from(products)...; the two throws
SelectProduct(w, userId, productId, quantity) ==
    /\ ctx[w].pc = "idle"
    /\ LET call == [NoCtx EXCEPT !.userId = userId, !.productId = productId,
                                 !.quantity = quantity] IN
       IF productId \notin DOMAIN stock
       THEN ctx' = [ctx EXCEPT ![w] = [NoCtx EXCEPT !.ret = "NotFound"]]
       ELSE IF OutOfStock(stock[productId])
       THEN ctx' = [ctx EXCEPT ![w] = [NoCtx EXCEPT !.ret = "OutOfStock"]]
       ELSE ctx' = [ctx EXCEPT ![w] = [call EXCEPT !.pc = "existing",
                                                   !.stock = stock[productId]]]
    /\ UNCHANGED cartVars

\* const [existingItem] = await db.select().from(cartItems).where(and(...))
SelectExisting(w) ==
    /\ ctx[w].pc = "existing"
    /\ ctx' = [ctx EXCEPT ![w].pc = "write",
                          ![w].existing = {c \in cart : /\ c.userId = ctx[w].userId
                                                       /\ c.productId = ctx[w].productId}]
    /\ UNCHANGED cartVars

\* if (existingItem) { ... update ... } else { ... insert ... }
WriteCartItem(w) ==
    /\ ctx[w].pc = "write"
    /\ IF ctx[w].existing # {}
       THEN \E existingItem \in ctx[w].existing :
               IF CombinedExceedsStock(existingItem.quantity, ctx[w].quantity, ctx[w].stock)
               THEN /\ ctx' = [ctx EXCEPT ![w] = [NoCtx EXCEPT !.ret = "InsufficientStock"]]
                    /\ UNCHANGED cartVars
               ELSE /\ cart' = {IF c.id = existingItem.id
                                THEN [c EXCEPT !.quantity =
                                         NewQuantity(existingItem.quantity, ctx[w].quantity)]
                                ELSE c : c \in cart}
                    /\ ctx' = [ctx EXCEPT ![w] = [NoCtx EXCEPT !.ret = "ok"]]
                    /\ UNCHANGED nextCartId
       ELSE IF ExceedsStock(ctx[w].quantity, ctx[w].stock)
       THEN /\ ctx' = [ctx EXCEPT ![w] = [NoCtx EXCEPT !.ret = "InsufficientStock"]]
            /\ UNCHANGED cartVars
       ELSE IF /\ UniqueUserProduct
               /\ \E c \in cart : /\ c.userId = ctx[w].userId
                                   /\ c.productId = ctx[w].productId
       THEN /\ ctx' = [ctx EXCEPT ![w] = [NoCtx EXCEPT !.ret = "UniqueViolation"]]
            /\ UNCHANGED cartVars
       ELSE /\ cart' = cart \cup {[id |-> nextCartId, userId |-> ctx[w].userId,
                                   productId |-> ctx[w].productId,
                                   quantity |-> ctx[w].quantity]}
            /\ nextCartId' = nextCartId + 1
            /\ nextCartId' <= MaxCartRows + 1
            /\ ctx' = [ctx EXCEPT ![w] = [NoCtx EXCEPT !.ret = "ok"]]

CartRaceFrame == <<stock, restocks, listPrice, session, orderVars, addrVars>>

\* addToCart calls racing each other and the one-statement deletes
NextCartRace ==
    \/ \E w \in Workers :
          \/ \E u \in Users, p \in ProductIds, q \in AddToCartQuantities :
                SelectProduct(w, u, p, q) /\ UNCHANGED <<CartRaceFrame, last>>
          \/ SelectExisting(w) /\ UNCHANGED <<CartRaceFrame, last>>
          \/ WriteCartItem(w) /\ UNCHANGED <<CartRaceFrame, last>>
    \/ \E id \in CartRowIds : removeFromCart(id) /\ UNCHANGED <<CartRaceFrame, ctx>>
    \/ \E u \in Users : clearCart(u) /\ UNCHANGED <<CartRaceFrame, ctx>>
SpecCartRace == Init /\ [][NextCartRace]_vars

(***************************************************************************)
(* POST /api/orders next to the cart.  clearCart runs after createOrder    *)
(* has returned, in a statement of its own; when it throws, the route's    *)
(* catch answers 500.                                                      *)
(***************************************************************************)
\* a failed clearCart that takes the committed order back
ClearCartFailsUndoingOrder(w) ==
    /\ pc[w] = "clear"
    /\ orders' = {o \in orders : o.id # req[w].id}
    /\ orderItems' = {it \in orderItems : it.orderId # req[w].id}
    /\ pc' = [pc EXCEPT ![w] = "idle"]
    /\ result' = [result EXCEPT ![w] = [id |-> req[w].id, kind |-> "ClearCartFailed"]]
    /\ UNCHANGED <<stock, req, idx, seen, tx, calls, cartVars>>

\* await storage.clearCart(userId) throws: catch (error) ... res.status(500)
ClearCartFails(w) ==
    /\ pc[w] = "clear"
    /\ pc' = [pc EXCEPT ![w] = "idle"]
    /\ result' = [result EXCEPT ![w] = [id |-> req[w].id, kind |-> "ClearCartFailed"]]
    /\ UNCHANGED <<stock, orders, orderItems, req, idx, seen, tx, calls, cartVars>>

\* the checkout page's lines: MaxQty units of a product, which may be gone
CheckoutLines == {l \in CatalogLines : l.quantity = MaxQty}

\* POST /api/cart from the page of product p1: quantity = 1
AddOneToCart ==
    \E u \in Users :
        /\ addToCart(u, "p1", 1)
        /\ nextCartId' <= MaxCartRows + 1
        /\ UNCHANGED <<stock, restocks, listPrice, session, ctx, orderVars, addrVars>>

\* users filling their carts and ordering, the requests interleaved
NextCheckout ==
    \/ OrderStep(CheckoutLines)
    \/ \E w \in Workers :
          /\ ClearCartFails(w)
          /\ UNCHANGED <<restocks, listPrice, session, ctx, addrVars, last>>
    \/ AddOneToCart
SpecCheckout == Init /\ [][NextCheckout]_vars

(***************************************************************************)
(* GET /api/orders and GET /api/orders/:id.  The session carries the user  *)
(* id and the user's role; both routes read committed rows only.  status   *)
(* is the HTTP status of the response, rows and items its body.            *)
(***************************************************************************)
Roles == {"admin", "user"}
OrderIds == 1..MaxCalls
ItemsShown == 3

\* order requests of one unit per line for products of the catalog
UnitLines == {l \in CatalogLines : l.productId \in Products /\ l.quantity = 1}

\* if (userId) ... where(eq(orders.userId, userId)) else every order
getOrders(userId) == {o \in orders : userId = Unset \/ o.userId = userId}

\* .where(eq(orderItems.orderId, order.id)).limit(3)
ShownItems(orderId) ==
    LET all == {it \in orderItems : it.orderId = orderId} IN
    IF Cardinality(all) <= ItemsShown THEN {all}
    ELSE {some \in SUBSET all : Cardinality(some) = ItemsShown}

\* the order row with that id, or no row (null)
getOrderDetails(orderId) == {o \in orders : o.id = orderId}

\* a route that hands every order to every session
MayReadAny(role, userId, orderUserId) == TRUE

\* !(user?.role !== 'admin' && orderDetails.order.userId !== userId)
MayRead(role, userId, orderUserId) == role = "admin" \/ orderUserId = userId

GetOrdersCall ==
    \E u \in Users, role \in Roles :
        LET found == getOrders(IF role = "admin" THEN Unset ELSE u) IN
        \E shown \in [found -> SUBSET orderItems] :
            /\ \A o \in found : shown[o] \in ShownItems(o.id)
            /\ last' = [NoCall EXCEPT !.op = "getOrders", !.userId = u,
                                      !.role = role, !.status = 200,
                                      !.rows = found,
                                      !.items = UNION {shown[o] : o \in found}]
            /\ UNCHANGED <<stock, restocks, listPrice, session, ctx, orderVars, addrVars, cartVars>>

GetOrderCall ==
    \E u \in Users, role \in Roles, id \in OrderIds :
        LET call == [NoCall EXCEPT !.op = "getOrder", !.userId = u,
                                   !.role = role, !.id = id]
            found == getOrderDetails(id)
        IN
        /\ last' = IF found = {}
                   THEN [call EXCEPT !.status = 404]
                   ELSE IF \E o \in found : ~MayRead(role, u, o.userId)
                   THEN [call EXCEPT !.status = 403]
                   ELSE [call EXCEPT !.status = 200, !.rows = found,
                                     !.items = {it \in orderItems : it.orderId = id}]
        /\ UNCHANGED <<stock, restocks, listPrice, session, ctx, orderVars, addrVars, cartVars>>

\* order requests racing each other and the reads of the order history
NextReads == OrderStep(UnitLines) \/ GetOrdersCall \/ GetOrderCall
SpecReads == Init /\ [][NextReads]_vars

(***************************************************************************)
(* Properties of the order processor.                                      *)
(***************************************************************************)
InitialStock == MaxStock

ItemsOf(id) == {it \in orderItems : it.orderId = id}

RECURSIVE SumQuantity(_)
SumQuantity(rows) ==
    IF rows = {} THEN 0
    ELSE LET r == CHOOSE x \in rows : TRUE
         IN r.quantity + SumQuantity(rows \ {r})

RECURSIVE SumPriceTimesQuantity(_)
SumPriceTimesQuantity(rows) ==
    IF rows = {} THEN 0
    ELSE LET r == CHOOSE x \in rows : TRUE
         IN r.price * r.quantity + SumPriceTimesQuantity(rows \ {r})

\* C1: the stock of every product is >= 0 in every committed state, whatever
\* createOrder and admin stock update calls were made.
C1_StockNonNegative == \A p \in Products : stock[p] >= 0

\* C2: a unit of stock is never sold twice: the quantities of a product in
\* the persisted single-line orders never add up to more than the stock
\* the product had before those orders (of two racing orders for 2 units
\* out of a stock of 3 at most one is persisted).
C2_NeverSoldTwice ==
    \A p \in Products :
        SumQuantity({it \in orderItems :
                        /\ it.productId = p
                        /\ Cardinality(ItemsOf(it.orderId)) = 1}) <= InitialStock

\* C3: when a createOrder call fails, the step that ends it leaves the
\* orders, the order items and every product's stock as they were, and no
\* row of that call is among them.
C3_FailedOrderLeavesNothing ==
    [][\A w \in Workers :
          (pc[w] # "idle" /\ pc'[w] = "idle" /\ result'[w].kind # "ok")
          => /\ stock' = stock
             /\ orders' = orders
             /\ orderItems' = orderItems
             /\ \A o \in orders' : o.id # result'[w].id
             /\ \A it \in orderItems' : it.orderId # result'[w].id]_vars

\* a call failed on its second line after its first line had passed
C3_Witness ==
    \E w \in Workers :
        /\ pc[w] = "idle"
        /\ result[w].kind \in {"NotFound", "InsufficientStock"}
        /\ result[w].id = req[w].id
        /\ Len(req[w].items) = 2
        /\ req[w].items[1].productId \in Products
        /\ req[w].items[1].productId # req[w].items[2].productId
        /\ stock[req[w].items[1].productId] = InitialStock
        /\ ItemsOf(result[w].id) = {}

C14_ValidationPass ==
    [][\A w \in Workers :
          (pc[w] = "validate" /\ (pc'[w] # "validate" \/ idx'[w] # idx[w]))
          => LET item == req[w].items[idx[w]] IN
             IF item.productId \notin DOMAIN stock
             THEN /\ pc'[w] = "idle"
                  /\ result'[w] = [id |-> req[w].id, kind |-> "NotFound"]
             ELSE IF stock[item.productId] = 0
                     \/ stock[item.productId] < item.quantity
             THEN /\ pc'[w] = "idle"
                  /\ result'[w] = [id |-> req[w].id, kind |-> "InsufficientStock"]
             ELSE /\ result'[w] = result[w]
                  /\ IF idx[w] = Len(req[w].items)
                     THEN pc'[w] = "insert"
                     ELSE pc'[w] = "validate" /\ idx'[w] = idx[w] + 1]_vars

\* an order for 2 units of a product with 1 unit left failed with
\* InsufficientStock
C14_Witness ==
    \E w \in Workers :
        /\ pc[w] = "idle"
        /\ result[w] = [id |-> req[w].id, kind |-> "InsufficientStock"]
        /\ Len(req[w].items) = 1
        /\ req[w].items[1].quantity = 2
        /\ stock[req[w].items[1].productId] = 1
        /\ \A o \in orders : o.id # req[w].id

\* C15: GET /api/orders/:id answers 404 when no order has that id, 403 when
\* the session user is not an admin and the order is another user's, and
\* otherwise 200 with the order and all its items; GET /api/orders gives a
\* session that is not an admin exactly the orders whose userId is the
\* session user.
C15_OrderReadsAuthorized ==
    [][last' # last
       => /\ last'.op = "getOrder"
             => LET found == {o \in orders : o.id = last'.id} IN
                IF found = {}
                THEN last'.status = 404 /\ last'.rows = {} /\ last'.items = {}
                ELSE IF last'.role # "admin"
                        /\ \E o \in found : o.userId # last'.userId
                THEN last'.status = 403 /\ last'.rows = {} /\ last'.items = {}
                ELSE /\ last'.status = 200
                     /\ last'.rows = found
                     /\ last'.items = ItemsOf(last'.id)
          /\ (last'.op = "getOrders" /\ last'.role # "admin")
             => /\ last'.status = 200
                /\ last'.rows = {o \in orders : o.userId = last'.userId}
                /\ \A it \in last'.items :
                      \E o \in last'.rows : it.orderId = o.id]_vars

\* a user who is not an admin asked for the order of another user, which
\* exists with its items, and was answered 403 without a body
C15_Witness ==
    /\ last.op = "getOrder"
    /\ last.role = "user"
    /\ last.status = 403
    /\ last.rows = {}
    /\ \E o \in orders :
          o.id = last.id /\ o.userId # last.userId /\ ItemsOf(o.id) # {}

\* C16: nothing after the validation pass looks at the stock again or waits
\* for the other call's commit before validation: a createOrder call that
\* has passed validation ends only by committing or as the victim of a lock
\* cycle, never for lack of stock.  So two calls that both pass validation
\* before either commits are both persisted (the oversell of the witness).
C16_NoStockFailureAfterValidation ==
    [][\A w \in Workers :
          (pc[w] \in {"insert", "read", "write", "commit"} /\ pc'[w] # pc[w])
          => \/ pc'[w] \in {"read", "write", "commit", "clear"}
             \/ pc'[w] = "idle" /\ result'[w].kind = "StorageFailure"]_vars

\* two persisted single-line orders for the same product add up to more
\* than the stock the product ever had
C16_Witness ==
    /\ \A w \in Workers : pc[w] = "idle" /\ result[w].kind = "ok"
    /\ \E a, b \in orderItems :
          /\ a.orderId # b.orderId
          /\ a.productId = b.productId
          /\ ItemsOf(a.orderId) = {a}
          /\ ItemsOf(b.orderId) = {b}
          /\ a.quantity + b.quantity > InitialStock
          /\ \E x, y \in orders : x.id = a.orderId /\ y.id = b.orderId

\* C18: the decrement of createOrder checks the stock again: when the
\* quantity to subtract is more than the stock the decrement read, the call
\* fails with InsufficientStock instead of writing the smaller stock.
C18_DecrementRechecksStock ==
    [][\A w \in Workers :
          (/\ pc[w] = "write"
           /\ pc'[w] # "write"
           /\ req[w].items[idx[w]].quantity > seen[w])
          => pc'[w] = "idle" /\ result'[w].kind = "InsufficientStock"]_vars

\* the quantity the line items ask of product p, all lines of p together
QuantityOf(items, p) ==
    SumSeq([i \in 1..Len(items) |->
               IF items[i].productId = p THEN items[i].quantity ELSE 0], Len(items))

\* C19: when a createOrder call that ran alone commits, the stock of every
\* product is its stock before the call minus the total quantity the line
\* items ask of that product (nothing for a product no line names).
C19_IsolatedOrderDecrementsStock ==
    [][\A w \in Workers :
          (pc[w] = "commit" /\ pc'[w] = "clear")
          => \A p \in DOMAIN stock :
                stock'[p] = stock[p] - QuantityOf(req[w].items, p)]_vars

\* an order with two lines of the same product took both quantities off
\* its stock and left the other product's stock alone
C19_Witness ==
    \E w \in Workers :
        /\ pc[w] = "idle"
        /\ result[w] = [id |-> req[w].id, kind |-> "ok"]
        /\ calls = 1
        /\ restocks = 0
        /\ Len(req[w].items) = 2
        /\ req[w].items[1].productId = req[w].items[2].productId
        /\ req[w].items[1].quantity # req[w].items[2].quantity
        /\ \A p \in DOMAIN stock :
              stock[p] = InitialStock - QuantityOf(req[w].items, p)
        /\ \E p \in DOMAIN stock : stock[p] = InitialStock

\* C20: a createOrder call that commits adds exactly one order row, for the
\* request's user with status pending and the totalAmount passed in, and
\* exactly one order item row per line, each with the new order's id and
\* the line's product id, quantity and unit price as the caller sent it; no
\* other step, a change of the product's catalog price included, adds,
\* removes or changes an order or order item row.
C20_OrderRowsAsRequested ==
    [][/\ \A w \in Workers :
            (pc[w] = "commit" /\ pc'[w] = "clear")
            => /\ \A o \in orders : o.id # req[w].id
               /\ orders' = orders \cup {[id |-> req[w].id,
                                          userId |-> req[w].userId,
                                          totalAmount |-> req[w].totalAmount,
                                          status |-> "pending"]}
               /\ orderItems \subseteq orderItems'
               /\ Cardinality(orderItems' \ orderItems) = Len(req[w].items)
               /\ \A i \in 1..Len(req[w].items) :
                     \E it \in orderItems' \ orderItems :
                        /\ it.orderId = req[w].id
                        /\ it.line = i
                        /\ it.productId = req[w].items[i].productId
                        /\ it.quantity = req[w].items[i].quantity
                        /\ it.price = req[w].items[i].price
       /\ (\A w \in Workers : ~(pc[w] = "commit" /\ pc'[w] = "clear"))
          => orders' = orders /\ orderItems' = orderItems]_vars

\* an order item stored at the price the catalog had at first keeps that
\* price after the catalog price of its product was changed
C20_Witness ==
    \E it \in orderItems :
        /\ it.price = CatalogPrice(it.productId)
        /\ listPrice[it.productId] # it.price
        /\ \E o \in orders : o.id = it.orderId /\ o.status = "pending"
        /\ Cardinality(ItemsOf(it.orderId)) = 2

(***************************************************************************)
(* Properties of the address default manager.                              *)
(***************************************************************************)
\* C4: after any createAddress / updateAddress / setDefaultAddress calls a
\* user with at least one address has exactly one default address, and a
\* user with no address has none.
C4_ExactlyOneDefault ==
    \A u \in Users :
        Cardinality(DefaultsOf(addresses, u)) =
            IF AddressesOf(addresses, u) = {} THEN 0 ELSE 1

\* C8: createAddress with isDefault false or unset for a user who has no
\* address stores the new address with isDefault = true.
C8_FirstAddressBecomesDefault ==
    [][(/\ last'.op = "createAddress"
        /\ nextAddrId' = nextAddrId + 1
        /\ last'.isDefault \in {"false", Unset}
        /\ AddressesOf(addresses, last'.userId) = {})
       => \E a \in addresses' :
             a.id = last'.id /\ a.userId = last'.userId /\ a.isDefault]_vars

\* the only address of a user was created with isDefault false and is default
C8_Witness ==
    /\ last.op = "createAddress"
    /\ last.isDefault = "false"
    /\ \E a \in addresses :
          /\ a.id = last.id
          /\ a.isDefault
          /\ AddressesOf(addresses, last.userId) = {a}

\* C9: setDefaultAddress(userId, addressId) on an address of userId returns
\* true and leaves that address the only default address of the user.
C9_SetDefaultMovesTheDefault ==
    [][(/\ last'.op = "setDefaultAddress"
        /\ \E a \in addresses : a.id = last'.id /\ a.userId = last'.userId)
       => /\ last'.ret = "true"
          /\ \A a \in AddressesOf(addresses', last'.userId) :
                a.isDefault <=> a.id = last'.id]_vars

\* the user's second address was made the default, the first one is not
C9_Witness ==
    /\ last.op = "setDefaultAddress"
    /\ last.ret = "true"
    /\ \E a, b \in AddressesOf(addresses, last.userId) :
          a.id < b.id /\ b.id = last.id /\ b.isDefault /\ ~a.isDefault

\* C10: setDefaultAddress(userId, addressId) returns false exactly when no
\* address addressId of userId exists, and it leaves every address of the
\* other users as it was.
C10_SetDefaultChecksOwner ==
    [][last'.op = "setDefaultAddress"
       => /\ last'.ret = "false" <=>
                ~\E a \in addresses : a.id = last'.id /\ a.userId = last'.userId
          /\ \A a \in addresses : a.userId # last'.userId => a \in addresses']_vars

\* a call naming another user's default address returned false and that
\* address is still the other user's default
C10_Witness ==
    /\ last.op = "setDefaultAddress"
    /\ last.ret = "false"
    /\ \E a \in addresses :
          a.id = last.id /\ a.userId # last.userId /\ a.isDefault

\* C11: a setDefaultAddress call that returns false changes nothing: every
\* address, the caller's current default included, has the same isDefault
\* after the call as before it.
C11_FailedSetDefaultIsNoOp ==
    [][(last'.op = "setDefaultAddress" /\ last'.ret = "false")
       => addresses' = addresses]_vars

\* C17: createAddress calls made at the same time for a user without
\* addresses are never both made the default: once every call has
\* committed, the user's one or two addresses have exactly one default
\* among them.
C17_ConcurrentFirstAddresses ==
    (\A w \in Workers : atx[w].pc = "idle")
    => \A u \in Users :
          Cardinality(AddressesOf(addresses, u)) \in {1, 2}
          => Cardinality(DefaultsOf(addresses, u)) = 1

(***************************************************************************)
(* Properties of the cart manager.                                         *)
(***************************************************************************)
\* C5: after a successful addToCart or updateCartItem the quantity of the
\* resulting cart item is <= the stock of its product at that call.
C5_CartQuantityWithinStock ==
    (last.op \in {"addToCart", "updateCartItem"} /\ last.ret = "ok")
    => \E c \in cart : c.id = last.id /\ c.quantity <= stock[c.productId]

\* an addToCart on an existing line brought it to exactly the stock
C5_Witness ==
    /\ last.op = "addToCart"
    /\ last.ret = "ok"
    /\ last.quantity > 0
    /\ \E c \in cart :
          /\ c.id = last.id
          /\ c.quantity > last.quantity
          /\ c.quantity = stock[c.productId]

\* C7 (as claimed): when the cart holds h > 0 of P and h + q > P.stock,
\* addToCart(user, P, q) fails with InsufficientStock reporting h and the
\* stock, and the cart is unchanged.
C7_Original ==
    [][\A c \in cart :
          (/\ last'.op = "addToCart"
           /\ c.userId = last'.userId
           /\ c.productId = last'.productId
           /\ c.quantity > 0
           /\ c.quantity + last'.quantity > stock[c.productId])
          => /\ last'.ret = "InsufficientStock"
             /\ last'.held = c.quantity
             /\ last'.available = stock[c.productId]
             /\ cart' = cart]_vars

\* C7 (amended): when the cart holds h > 0 of P, P.stock > 0 and h + q > P.stock,
\* addToCart(user, P, q) fails with InsufficientStock reporting h and the
\* stock; when P.stock <= 0 it fails with OutOfStock; either way the cart
\* is unchanged.
C7_InsufficientStockReportsHeld ==
    [][\A c \in cart :
          (/\ last'.op = "addToCart"
           /\ c.userId = last'.userId
           /\ c.productId = last'.productId
           /\ c.quantity > 0
           /\ c.quantity + last'.quantity > stock[c.productId])
          => /\ cart' = cart
             /\ IF stock[c.productId] > 0
                THEN /\ last'.ret = "InsufficientStock"
                     /\ last'.held = c.quantity
                     /\ last'.available = stock[c.productId]
                ELSE last'.ret = "OutOfStock"]_vars

\* the cart holds 2 of a product with stock 2 and adding 1 more failed,
\* reporting 2 held and 2 available
C7_Witness ==
    /\ last.op = "addToCart"
    /\ last.ret = "InsufficientStock"
    /\ last.quantity = 1
    /\ last.held = 2
    /\ last.available = 2
    /\ \E c \in cart :
          c.id = last.id /\ c.quantity = 2 /\ stock[c.productId] = 2

\* C12: addToCart fails with NotFound when the product does not exist and
\* with OutOfStock when the product exists with stock <= 0, whatever the
\* quantity asked for and whether or not the user's cart already has a line
\* of the product; in both cases the cart is left as it was.
C12_AddToCartRejectsMissingAndOutOfStock ==
    [][last'.op = "addToCart"
       => /\ last'.productId \notin DOMAIN stock
             => last'.ret = "NotFound" /\ cart' = cart
          /\ (last'.productId \in DOMAIN stock /\ stock[last'.productId] <= 0)
             => last'.ret = "OutOfStock" /\ cart' = cart]_vars

\* an addToCart on a line the cart already holds failed with OutOfStock
\* because the stock of the product had become negative
C12_Witness ==
    /\ last.op = "addToCart"
    /\ last.ret = "OutOfStock"
    /\ stock[last.productId] < 0
    /\ \E c \in cart :
          c.userId = last.userId /\ c.productId = last.productId /\ c.quantity > 0

\* C13: updateCartItem(cartItemId, quantity) fails with NotFound when no
\* cart item has that id or the item's product is gone, and with
\* InsufficientStock when quantity is more than the product's stock; on
\* each failure the cart item keeps its quantity.
C13_UpdateCartItemFailures ==
    [][last'.op = "updateCartItem"
       => LET found == {c \in cart : c.id = last'.id} IN
          /\ found = {} => last'.ret = "NotFound" /\ cart' = cart
          /\ \A c \in found :
                IF c.productId \notin DOMAIN stock
                THEN last'.ret = "NotFound" /\ cart' = cart
                ELSE last'.quantity > stock[c.productId]
                     => last'.ret = "InsufficientStock" /\ cart' = cart]_vars

\* an updateCartItem on a line whose product was deleted failed with
\* NotFound and the line is still in the cart
C13_Witness ==
    /\ last.op = "updateCartItem"
    /\ last.ret = "NotFound"
    /\ \E c \in cart :
          c.id = last.id /\ c.productId \notin DOMAIN stock /\ c.quantity > 0

\* C21: a successful addToCart(userId, productId, q) changes exactly one
\* cart row: the line of (userId, productId), if there is one with quantity
\* h, gets quantity h + q, otherwise a new line with quantity q is inserted;
\* every other cart item stays as it was.
C21_AddToCartUpsertsOneRow ==
    [][(last'.op = "addToCart" /\ last'.ret = "ok")
       => LET existing == {c \in cart : /\ c.userId = last'.userId
                                         /\ c.productId = last'.productId}
          IN IF existing # {}
             THEN \E e \in existing :
                     cart' = (cart \ {e})
                             \cup {[e EXCEPT !.quantity = e.quantity + last'.quantity]}
             ELSE \E r \in cart' :
                     /\ \A c \in cart : c.id # r.id
                     /\ r.userId = last'.userId
                     /\ r.productId = last'.productId
                     /\ r.quantity = last'.quantity
                     /\ cart' = cart \cup {r}]_vars

\* an addToCart of 1 brought a line from 1 to 2 while the cart also holds a
\* line of the other user, which has the quantity it was added with
C21_Witness ==
    /\ last.op = "addToCart"
    /\ last.ret = "ok"
    /\ last.quantity = 1
    /\ \E c, d \in cart :
          /\ c.id = last.id
          /\ c.quantity = 2
          /\ d.userId # c.userId
          /\ d.quantity = MaxQty

\* C22: after createAddress with isDefault true, and after an updateAddress
\* of an existing address whose patch sets isDefault true, the created or
\* updated address is the only default address of its user, and the
\* addresses of the other users are as they were.
C22_RequestedDefaultIsTheOnlyDefault ==
    [][(/\ last'.isDefault = "true"
        /\ \/ last'.op = "createAddress" /\ nextAddrId' = nextAddrId + 1
           \/ last'.op = "updateAddress" /\ last'.ret = "ok")
       => \E a \in addresses' :
             /\ a.id = last'.id
             /\ DefaultsOf(addresses', a.userId) = {a}
             /\ \A b \in addresses : b.userId # a.userId => b \in addresses'
             /\ \A b \in addresses' : b.userId # a.userId => b \in addresses]_vars

\* an updateAddress with isDefault true moved the default of a user with
\* two addresses to the address updated, and the other user still has a
\* default address
C22_Witness ==
    /\ last.op = "updateAddress"
    /\ last.isDefault = "true"
    /\ last.ret = "ok"
    /\ \E a, b, c \in addresses :
          /\ a.id = last.id
          /\ a.isDefault
          /\ b.userId = a.userId
          /\ b.id < a.id
          /\ ~b.isDefault
          /\ c.userId # a.userId
          /\ c.isDefault

(***************************************************************************)
(* Properties of the routes.                                               *)
(***************************************************************************)
\* C23: the cart reserves no stock: every cart request and every address
\* request, whether it succeeds or fails, leaves the stock of every product
\* as it was; among these requests only the admin's product update writes
\* stock.
C23_CartAndAddressesLeaveStock ==
    [][restocks' = restocks => stock' = stock]_vars

\* a cart holds 2 units of a product that still has its whole stock, the
\* last cart request failed, and an address exists
C23_Witness ==
    /\ last.op = "addToCart"
    /\ last.ret = "InsufficientStock"
    /\ restocks = 0
    /\ addresses # {}
    /\ \E c \in cart : c.quantity = 2 /\ stock[c.productId] = InitialStock

\* C26: after any cart requests made through POST /api/cart and
\* PUT /api/cart/:id every persisted cart item has a quantity > 0.
C26_CartQuantitiesPositive ==
    \A c \in cart : c.quantity > 0

\* C29: a PUT or DELETE of /api/addresses/:id or /api/cart/:id leaves every
\* address and every cart item that is not the session user's as it was.
C29_OnlyOwnRowsChange ==
    [][last'.op \in {"updateAddress", "deleteAddress",
                     "updateCartItem", "removeFromCart"}
       => /\ \A a \in addresses : a.userId # session' => a \in addresses'
          /\ \A c \in cart : c.userId # session' => c \in cart']_vars

\* C24: no statement of createOrder changes a cart item; the route clears
\* the user's cart only once createOrder has committed the order; a failure
\* of that clearing leaves the order, its items and the stock decrements
\* persisted.
C24_CartClearedAfterOrderNotWithIt ==
    [][\A w \in Workers :
          /\ (pc[w] \notin {"idle", "clear"} /\ pc'[w] # pc[w]) => cart' = cart
          /\ (pc'[w] # pc[w] /\ cart' # cart)
             => /\ pc[w] = "clear"
                /\ \E o \in orders : o.id = req[w].id
                /\ tx[w] = NoTx
          /\ (pc[w] = "clear" /\ pc'[w] = "idle" /\ result'[w].kind # "ok")
             => /\ stock' = stock
                /\ orders' = orders
                /\ orderItems' = orderItems
                /\ \E o \in orders' : o.id = req[w].id
                /\ ItemsOf(req[w].id)' # {}]_vars

\* clearing the cart failed after an order for p1: the order and its items
\* are stored, p1's stock is down, the user's cart item is still there
C24_Witness ==
    \E w \in Workers :
        /\ pc[w] = "idle"
        /\ result[w].kind = "ClearCartFailed"
        /\ \E o \in orders : o.id = result[w].id /\ o.userId = SessionUser(w)
        /\ \E it \in orderItems : it.orderId = result[w].id
        /\ stock["p1"] < InitialStock
        /\ \E c \in cart : c.userId = SessionUser(w)

\* C30: a POST /api/orders that fails in createOrder (insufficient stock or
\* product not found) leaves the cart as it was; cart items are deleted by
\* the route only when the order was committed, and then exactly the
\* ordering user's items.
C30_CartClearedOnlyOnCommittedOrder ==
    [][/\ \A w \in Workers :
            (/\ pc[w] # "idle"
             /\ pc'[w] = "idle"
             /\ result'[w].kind \in {"NotFound", "InsufficientStock"})
            => /\ cart' = cart
               /\ \A o \in orders' : o.id # req[w].id
       /\ (cart' # cart /\ pc' # pc)
          => \E w \in Workers :
                /\ pc[w] = "clear"
                /\ result'[w].kind = "ok"
                /\ \E o \in orders' : o.id = req[w].id
                /\ cart' = {c \in cart : c.userId # req[w].userId}]_vars

\* u1's order was committed and emptied u1's cart, u2's order failed for
\* want of stock, and u2's cart item is still there
C30_Witness ==
    /\ pc = [w \in Workers |-> "idle"]
    /\ result["w1"].kind = "ok"
    /\ result["w2"].kind = "InsufficientStock"
    /\ nextCartId = MaxCartRows + 1
    /\ Cardinality(cart) = 1
    /\ \A c \in cart : c.userId = "u2"

\* C25: createOrder only decrements: whatever line items the route passes
\* on (quantities it does not validate included), no product's stock is
\* greater after the call than before it.
C25_OrdersOnlyDecrement ==
    [][\A p \in Products : stock'[p] <= stock[p]]_vars

\* C28: a createOrder call whose lines name one product several times
\* commits only if those lines' quantities together are <= the product's
\* stock.
C28_DuplicateLinesSummed ==
    [][\A w \in Workers :
          (pc[w] = "commit" /\ pc'[w] = "clear")
          => \A p \in Products : QuantityOf(req[w].items, p) <= stock[p]]_vars

====
